---- MODULE Spec2Model ----
(***************************************************************************)
(* Model of src/src/autopilot.py: the AI Governance Autopilot.             *)
(*                                                                         *)
(* classify_column_sensitivity normalises the answer of the Cortex model   *)
(* to one of four labels; classify_and_protect_table samples a table,      *)
(* classifies and tags every column, logs each tag to                      *)
(* GOVERNANCE_AUTOPILOT_LOG and, when a column is PII, attaches            *)
(* PII_ROW_POLICY inside a try/except.                                     *)
(*                                                                         *)
(* Python strings are sequences of one-character strings, so that strip()  *)
(* and upper() are computed and not assumed.  Every remote statement may   *)
(* raise (an environment fault chosen nondeterministically); an uncaught   *)
(* exception ends the run in pc = "FAILED".                                *)
(***************************************************************************)
EXTENDS Integers, Sequences, FiniteSets, TLC

VARIABLES
    pc,              \* position of classify_and_protect_table
    run,             \* number of invocations started so far
    columns,         \* the target table's columns, in the table's order
    sample_columns,  \* sample_pdf.columns
    idx,             \* position of the for loop in sample_columns (from 1)
    raw_label,       \* raw_label of the current iteration
    label,           \* label of the current iteration
    has_pii,         \* has_pii
    tags,            \* warehouse: DATA_SENSITIVITY tag of each column
    row_policy,      \* warehouse: the table has a row access policy
    log_exists,      \* warehouse: GOVERNANCE_AUTOPILOT_LOG exists
    log,             \* warehouse: rows of GOVERNANCE_AUTOPILOT_LOG
    issued,          \* the statements the current run issued, in order
    completed,       \* the runs that reached the final print
    cpc,             \* position of a lone classify_column_sensitivity call
    response,        \* the Cortex answer given to that call
    returned         \* the value that call returned

vars == <<pc, run, columns, sample_columns, idx, raw_label, label, has_pii,
          tags, row_policy, log_exists, log, issued, completed,
          cpc, response, returned>>

\* ------------------------------------------------------------- bounds
MaxCols == 3
MaxRuns == 2
RerunCols == 1
MaxPad == 1

\* ------------------------------------------------------------- strings
PII == <<"P", "I", "I">>
CONFIDENTIAL == <<"C", "O", "N", "F", "I", "D", "E", "N", "T", "I", "A", "L">>
INTERNAL == <<"I", "N", "T", "E", "R", "N", "A", "L">>
PUBLIC == <<"P", "U", "B", "L", "I", "C">>

allowed == {PII, CONFIDENTIAL, INTERNAL, PUBLIC}

Lower == <<"a", "b", "c", "d", "e", "f", "g", "h", "i", "j", "k", "l", "m",
           "n", "o", "p", "q", "r", "s", "t", "u", "v", "w", "x", "y", "z">>
Upper == <<"A", "B", "C", "D", "E", "F", "G", "H", "I", "J", "K", "L", "M",
           "N", "O", "P", "Q", "R", "S", "T", "U", "V", "W", "X", "Y", "Z">>

\* The characters str.strip() removes (the ASCII ones the model uses).
Whitespace == {" ", "\t", "\n"}

\* str.upper() on one character.
UpperChar(c) ==
    IF \E k \in 1..Len(Lower) : Lower[k] = c
    THEN Upper[CHOOSE k \in 1..Len(Lower) : Lower[k] = c]
    ELSE c

\* str.upper()
upper(s) == [k \in 1..Len(s) |-> UpperChar(s[k])]

\* str.strip(): drop the leading and the trailing whitespace.
strip(s) ==
    LET inner == {k \in 1..Len(s) : s[k] \notin Whitespace}
    IN  IF inner = {} THEN <<>>
        ELSE LET first == CHOOSE k \in inner : \A j \in inner : k <= j
                 last  == CHOOSE k \in inner : \A j \in inner : k >= j
             IN  SubSeq(s, first, last)

\* Variant: the answer is upper-cased but not stripped.
classify_no_strip(result) ==
    LET l == upper(result)
    IN  IF l \in allowed THEN l ELSE INTERNAL

\* classify_column_sensitivity, from the Cortex answer on.
classify_column_sensitivity(result) ==
    LET l == upper(strip(result))
    IN  IF l \in allowed THEN l ELSE INTERNAL

\* The answers the Cortex model gives inside a table run: padded, in several
\* casings, outside the label set, empty.
CortexResults ==
    { <<" ", "p", "i", "i", "\n">>,
      PUBLIC,
      <<"C", "o", "n", "f", "i", "d", "e", "n", "t", "i", "a", "l">>,
      <<"i", "n", "t", "e", "r", "n", "a", "l", " ">>,
      <<"U", "N", "K", "N", "O", "W", "N">>,
      <<>> }

\* ------------------------------------------------------------- warehouse
NULL == 0
NoTag == <<>>

\* One row of GOVERNANCE_AUTOPILOT_LOG.  run stands for EVENT_TIME: it tells
\* the rows of one invocation from those of another.
TagRecord(r, c, l) ==
    [run |-> r, column_name |-> c, action |-> "TAG_APPLIED",
     details |-> <<"DATA_SENSITIVITY", l>>]

PolicyAttachedRecord(r) ==
    [run |-> r, column_name |-> NULL, action |-> "POLICY_ATTACHED",
     details |-> <<"PII_ROW_POLICY">>]

PolicySkippedRecord(r) ==
    [run |-> r, column_name |-> NULL, action |-> "POLICY_SKIPPED",
     details |-> <<"ROW_ACCESS_POLICY already present or attach failed">>]

\* A row written before the first modelled invocation.
OldRecord == TagRecord(0, 1, INTERNAL)

\* Variant: CREATE OR REPLACE TABLE, which empties an existing table.
CreateOrReplace(exists, rows) == <<>>

\* CREATE TABLE IF NOT EXISTS GOVERNANCE_AUTOPILOT_LOG: the rows afterwards.
CreateTableIfNotExists(exists, rows) == IF exists THEN rows ELSE <<>>

\* Whether the create statement raises: only on an environment fault.
CreateRaises(exists, fault) == fault

\* Whether an INSERT INTO GOVERNANCE_AUTOPILOT_LOG raises.
InsertRaises(exists, fault) == fault \/ ~exists

\* Whether ALTER TABLE ... SET ROW ACCESS POLICY raises: a table holds at most
\* one row access policy.
AttachRaises(policy, fault) == fault \/ policy

\* Variant: the tag is set to the default label, not to the column's label.
ApplyTagDefault(t, c, l) == [t EXCEPT ![c] = INTERNAL]

\* ALTER TABLE ... MODIFY COLUMN c SET TAG DATA_SENSITIVITY = 'l'
ApplyTag(t, c, l) == [t EXCEPT ![c] = l]

\* ------------------------------------------------------------- control flow
Stmt(s, c, v, f, o) == [stmt |-> s, col |-> c, val |-> v, fault |-> f, ok |-> o]

\* The statements inside the try block.
TryBody == {"ATTACH", "LOG_ATTACHED"}

\* Variant: no try block.
RaiseNoTry(s) == "FAILED"

\* Variant: the try block holds the attach statement alone.
RaiseAttachOnly(s) == IF s = "ATTACH" THEN "LOG_SKIP" ELSE "FAILED"

\* Variant: an error of the tag statement is swallowed and the loop goes on.
RaiseTagSwallowed(s) ==
    IF s \in {"ATTACH", "LOG_ATTACHED"} THEN "LOG_SKIP"
    ELSE IF s = "TAG" THEN "LOG_TAG" ELSE "FAILED"

\* Where control goes when statement s raises: to the except block from the
\* try body, out of the function from everywhere else.
Raise(s) == IF s \in TryBody THEN "LOG_SKIP" ELSE "FAILED"

\* for col_name in sample_pdf.columns
LoopHead(i, cols) == IF i <= Len(cols) THEN "CLASSIFY" ELSE "POLICY_CHECK"

\* Variant: the loop starts right after the sample, no create statement.
AfterSampleNoCreate == LoopHead(1, columns)

\* The statement after the sample is taken.
AfterSample == "CREATE_LOG"

\* Variant: has_pii = (label == "PII"), which forgets earlier columns.
UpdateHasPiiLast(hp, l) == l = PII

\* Variant: CONFIDENTIAL columns set the flag too.
UpdateHasPiiConfidential(hp, l) == hp \/ l \in {PII, CONFIDENTIAL}

\* if label == "PII": has_pii = True
UpdateHasPii(hp, l) == hp \/ l = PII

col_name == sample_columns[idx]

classifyVars == <<cpc, response, returned>>

\* ------------------------------------------------------------- actions
\* The call: _get_session() and the banner.
Enter(r) ==
    /\ \E active \in BOOLEAN : pc' = IF active THEN "SAMPLE" ELSE "FAILED"
    /\ run' = r
    /\ sample_columns' = <<>>
    /\ idx' = 1
    /\ raw_label' = <<>>
    /\ label' = <<>>
    /\ has_pii' = FALSE
    /\ issued' = <<>>
    /\ UNCHANGED <<columns, tags, row_policy, log_exists, log, completed,
                   classifyVars>>

Call ==
    /\ pc = "IDLE"
    /\ Enter(run + 1)

Rerun ==
    /\ pc \in {"DONE", "FAILED"}
    /\ run < MaxRuns
    /\ Enter(run + 1)

\* df = session.table(...); sample_pdf = df.limit(10).to_pandas(); has_pii = False
Sample ==
    /\ pc = "SAMPLE"
    /\ \E fault \in BOOLEAN :
        /\ issued' = Append(issued, Stmt("SAMPLE", NULL, <<>>, fault, ~fault))
        /\ IF fault
           THEN /\ pc' = Raise("SAMPLE")
                /\ UNCHANGED <<sample_columns, has_pii>>
           ELSE /\ sample_columns' = columns
                /\ has_pii' = FALSE
                /\ pc' = AfterSample
    /\ UNCHANGED <<run, columns, idx, raw_label, label, tags, row_policy,
                   log_exists, log, completed, classifyVars>>

\* CREATE TABLE IF NOT EXISTS GOVERNANCE_AUTOPILOT_LOG, then the loop starts.
CreateLog ==
    /\ pc = "CREATE_LOG"
    /\ \E fault \in BOOLEAN :
        LET raises == CreateRaises(log_exists, fault)
        IN  /\ issued' = Append(issued,
                                Stmt("CREATE_LOG", NULL, <<>>, fault, ~raises))
            /\ IF raises
               THEN /\ pc' = Raise("CREATE_LOG")
                    /\ UNCHANGED <<log_exists, log>>
               ELSE /\ log_exists' = TRUE
                    /\ log' = CreateTableIfNotExists(log_exists, log)
                    /\ pc' = LoopHead(idx, sample_columns)
    /\ UNCHANGED <<run, columns, sample_columns, idx, raw_label, label, has_pii,
                   tags, row_policy, completed, classifyVars>>

\* values = ...; raw_label = classify_column_sensitivity(...); label = raw_label.upper()
Classify ==
    /\ pc = "CLASSIFY"
    /\ \E fault \in BOOLEAN, result \in CortexResults :
        IF fault
        THEN /\ issued' = Append(issued,
                                 Stmt("CLASSIFY", col_name, <<>>, TRUE, FALSE))
             /\ pc' = Raise("CLASSIFY")
             /\ UNCHANGED <<raw_label, label>>
        ELSE /\ raw_label' = classify_column_sensitivity(result)
             /\ label' = upper(raw_label')
             /\ issued' = Append(issued,
                                 Stmt("CLASSIFY", col_name, label', FALSE, TRUE))
             /\ pc' = "TAG"
    /\ UNCHANGED <<run, columns, sample_columns, idx, has_pii, tags,
                   row_policy, log_exists, log, completed, classifyVars>>

\* session.sql(tag_sql).collect()
Tag ==
    /\ pc = "TAG"
    /\ \E fault \in BOOLEAN :
        /\ issued' = Append(issued, Stmt("TAG", col_name, label, fault, ~fault))
        /\ IF fault
           THEN /\ pc' = Raise("TAG")
                /\ UNCHANGED tags
           ELSE /\ tags' = ApplyTag(tags, col_name, label)
                /\ pc' = "LOG_TAG"
    /\ UNCHANGED <<run, columns, sample_columns, idx, raw_label, label,
                   has_pii, row_policy, log_exists, log, completed,
                   classifyVars>>

\* session.sql(log_sql).collect(); if label == "PII": has_pii = True; next column
LogTag ==
    /\ pc = "LOG_TAG"
    /\ \E fault \in BOOLEAN :
        LET raises == InsertRaises(log_exists, fault)
        IN  /\ issued' = Append(issued,
                                Stmt("LOG_TAG", col_name, label, fault, ~raises))
            /\ IF raises
               THEN /\ pc' = Raise("LOG_TAG")
                    /\ UNCHANGED <<log, has_pii, idx>>
               ELSE /\ log' = Append(log, TagRecord(run, col_name, label))
                    /\ has_pii' = UpdateHasPii(has_pii, label)
                    /\ idx' = idx + 1
                    /\ pc' = LoopHead(idx + 1, sample_columns)
    /\ UNCHANGED <<run, columns, sample_columns, raw_label, label, tags,
                   row_policy, log_exists, completed, classifyVars>>

\* if has_pii: ... else: print("No PII detected"); then the final print
PolicyCheck ==
    /\ pc = "POLICY_CHECK"
    /\ pc' = IF has_pii THEN "ATTACH" ELSE "DONE"
    /\ completed' = IF has_pii THEN completed ELSE completed \cup {run}
    /\ UNCHANGED <<run, columns, sample_columns, idx, raw_label, label,
                   has_pii, tags, row_policy, log_exists, log, issued,
                   classifyVars>>

\* try: session.sql(policy_sql).collect()
Attach ==
    /\ pc = "ATTACH"
    /\ \E fault \in BOOLEAN :
        LET raises == AttachRaises(row_policy, fault)
        IN  /\ issued' = Append(issued,
                                Stmt("ATTACH", NULL, <<>>, fault, ~raises))
            /\ IF raises
               THEN /\ pc' = Raise("ATTACH")
                    /\ UNCHANGED row_policy
               ELSE /\ row_policy' = TRUE
                    /\ pc' = "LOG_ATTACHED"
    /\ UNCHANGED <<run, columns, sample_columns, idx, raw_label, label,
                   has_pii, tags, log_exists, log, completed, classifyVars>>

\* session.sql(log_policy).collect(), still inside the try
LogAttached ==
    /\ pc = "LOG_ATTACHED"
    /\ \E fault \in BOOLEAN :
        LET raises == InsertRaises(log_exists, fault)
        IN  /\ issued' = Append(issued,
                                Stmt("LOG_ATTACHED", NULL, <<>>, fault, ~raises))
            /\ IF raises
               THEN /\ pc' = Raise("LOG_ATTACHED")
                    /\ UNCHANGED <<log, completed>>
               ELSE /\ log' = Append(log, PolicyAttachedRecord(run))
                    /\ pc' = "DONE"
                    /\ completed' = completed \cup {run}
    /\ UNCHANGED <<run, columns, sample_columns, idx, raw_label, label,
                   has_pii, tags, row_policy, log_exists, classifyVars>>

\* except Exception: print(...); session.sql(log_skip).collect()
LogSkip ==
    /\ pc = "LOG_SKIP"
    /\ \E fault \in BOOLEAN :
        LET raises == InsertRaises(log_exists, fault)
        IN  /\ issued' = Append(issued,
                                Stmt("LOG_SKIP", NULL, <<>>, fault, ~raises))
            /\ IF raises
               THEN /\ pc' = Raise("LOG_SKIP")
                    /\ UNCHANGED <<log, completed>>
               ELSE /\ log' = Append(log, PolicySkippedRecord(run))
                    /\ pc' = "DONE"
                    /\ completed' = completed \cup {run}
    /\ UNCHANGED <<run, columns, sample_columns, idx, raw_label, label,
                   has_pii, tags, row_policy, log_exists, classifyVars>>

\* ------------------------------------------------------------- specifications
Init ==
    /\ pc = "IDLE"
    /\ run = 0
    /\ columns \in {[k \in 1..n |-> k] : n \in 0..MaxCols}
    /\ sample_columns = <<>>
    /\ idx = 0
    /\ raw_label = <<>>
    /\ label = <<>>
    /\ has_pii = FALSE
    /\ tags = [c \in 1..Len(columns) |-> NoTag]
    /\ row_policy \in BOOLEAN
    /\ log_exists \in BOOLEAN
    /\ log \in IF log_exists THEN {<<>>, <<OldRecord>>} ELSE {<<>>}
    /\ issued = <<>>
    /\ completed = {}
    /\ cpc = "none"
    /\ response = <<>>
    /\ returned = <<>>

Next ==
    \/ Call
    \/ Sample
    \/ CreateLog
    \/ Classify
    \/ Tag
    \/ LogTag
    \/ PolicyCheck
    \/ Attach
    \/ LogAttached
    \/ LogSkip

\* One invocation of classify_and_protect_table.
Spec == Init /\ [][Next]_vars

InitRerun ==
    /\ Init
    /\ Len(columns) <= RerunCols

NextRerun ==
    \/ Next
    \/ Rerun

\* Up to MaxRuns invocations on the same table, one after the other.
SpecRerun == InitRerun /\ [][NextRerun]_vars

\* ------------------------------------------------------------- one classifier call
\* str.lower() on one character, to build the answers below.
LowerChar(c) ==
    IF \E k \in 1..Len(Upper) : Upper[k] = c
    THEN Lower[CHOOSE k \in 1..Len(Upper) : Upper[k] = c]
    ELSE c

\* A label as the model may spell it: as is, lower case, capitalised, mixed.
Casings(w) ==
    { w,
      [k \in 1..Len(w) |-> LowerChar(w[k])],
      [k \in 1..Len(w) |-> IF k = 1 THEN w[k] ELSE LowerChar(w[k])],
      [k \in 1..Len(w) |-> IF k % 2 = 0 THEN w[k] ELSE LowerChar(w[k])] }

\* Answers outside the label set.
Junk ==
    { <<>>,
      <<"U", "N", "K", "N", "O", "W", "N">>,
      <<"M", "a", "y", "b", "e", " ", "P", "I", "I">>,
      <<"P", " ", "I", "I">>,
      <<"P", "I">>,
      <<"P", "I", "I", "I">>,
      <<"P", "U", "B", "L", "I", "C", ".">>,
      <<"P", "I", "I", "\n", "P", "U", "B", "L", "I", "C">> }

\* Runs of whitespace of at most MaxPad characters.
Pads == UNION {[1..n -> Whitespace] : n \in 0..MaxPad}

\* The answers a lone call is tried on.
Responses ==
    {a \o w \o b : a \in Pads, b \in Pads,
                   w \in Junk \cup UNION {Casings(l) : l \in allowed}}

InitClassify ==
    /\ pc = "IDLE"
    /\ run = 0
    /\ columns = <<>>
    /\ sample_columns = <<>>
    /\ idx = 0
    /\ raw_label = <<>>
    /\ label = <<>>
    /\ has_pii = FALSE
    /\ tags = <<>>
    /\ row_policy = FALSE
    /\ log_exists = FALSE
    /\ log = <<>>
    /\ issued = <<>>
    /\ completed = {}
    /\ cpc = "call"
    /\ response \in Responses
    /\ returned = <<>>

\* result = cortex.complete(...); return the normalised label
ClassifyCall ==
    /\ cpc = "call"
    /\ returned' = classify_column_sensitivity(response)
    /\ cpc' = "returned"
    /\ UNCHANGED <<pc, run, columns, sample_columns, idx, raw_label, label,
                   has_pii, tags, row_policy, log_exists, log, issued,
                   completed, response>>

NextClassify == ClassifyCall

\* One call of classify_column_sensitivity on each answer of Responses.
SpecClassify == InitClassify /\ [][NextClassify]_vars

\* ------------------------------------------------------------- claims
\* r is label l in some casing, inside whitespace only.
IsSpellingOf(r, l) ==
    \E i \in 1..(Len(r) + 1) :
        /\ i + Len(l) - 1 <= Len(r)
        /\ \A k \in 1..(i - 1) : r[k] \in Whitespace
        /\ \A k \in (i + Len(l))..Len(r) : r[k] \in Whitespace
        /\ \A k \in 1..Len(l) :
            \/ r[i + k - 1] = l[k]
            \/ \E j \in 1..Len(Lower) : Lower[j] = r[i + k - 1] /\ Upper[j] = l[k]

\* C4: classify_column_sensitivity returns the label the answer spells (any
\* casing, any surrounding whitespace) and INTERNAL for every other answer;
\* the result is always one of the four labels.
C4_ClassifierNormalises ==
    cpc = "returned" =>
        /\ returned \in allowed
        /\ \A l \in allowed : IsSpellingOf(response, l) => returned = l
        /\ (\A l \in allowed : ~IsSpellingOf(response, l)) => returned = INTERNAL

\* A padded lower-case "pii" came back as PII.
C4_Witness ==
    /\ cpc = "returned"
    /\ response = <<" ", "p", "i", "i", "\n">>
    /\ returned = PII

\* ---- what a state says about the current run
Terminated == pc \in {"DONE", "FAILED"}

IsRowOfRun(r) == run > 0 /\ r.run = run
IsTagRow(r) == r.action = "TAG_APPLIED"
IsPolicyRow(r) == r.action \in {"POLICY_ATTACHED", "POLICY_SKIPPED"}

\* The rows the current run appended, its TAG_APPLIED rows, its policy rows.
RunRows == SelectSeq(log, IsRowOfRun)
TagRows == SelectSeq(RunRows, IsTagRow)
PolicyRows == SelectSeq(RunRows, IsPolicyRow)

WasIssued(s) == \E k \in 1..Len(issued) : issued[k].stmt = s
HasRaised(s) == \E k \in 1..Len(issued) : issued[k].stmt = s /\ ~issued[k].ok
LastIssued == issued[Len(issued)]

\* Some column of the current run was classified PII.
ClassifiedPII ==
    \E k \in 1..Len(issued) :
        issued[k].stmt = "CLASSIFY" /\ issued[k].ok /\ issued[k].val = PII

\* The column loop ended: no statement before the policy step raised.
LoopEnded ==
    \/ pc \in {"POLICY_CHECK", "ATTACH", "LOG_ATTACHED", "LOG_SKIP", "DONE"}
    \/ pc = "FAILED" /\ issued # <<>> /\ LastIssued.stmt = "LOG_SKIP"

\* The first N rows of the run are the TAG_APPLIED rows of the N columns, in
\* the table's order, and the run has no other TAG_APPLIED row.
TagRowsComplete ==
    /\ Len(TagRows) = Len(columns)
    /\ Len(RunRows) >= Len(columns)
    /\ \A k \in 1..Len(columns) :
        /\ RunRows[k].action = "TAG_APPLIED"
        /\ RunRows[k].column_name = columns[k]

\* C1 as stated: a run with a PII column whose loop ended has, when it ends,
\* N TAG_APPLIED rows, has_pii set, and exactly one policy row after them.
C1_Original ==
    (LoopEnded /\ ClassifiedPII /\ Terminated) =>
        /\ TagRowsComplete
        /\ has_pii
        /\ Len(PolicyRows) = 1

\* C1 (amended): a run with a PII column whose loop ended has N TAG_APPLIED
\* rows in column order, has_pii set and never two policy rows; when it
\* reaches DONE it has exactly one policy row, after the N TAG_APPLIED rows;
\* it has none only when the POLICY_SKIPPED insert raised and ended the run.
C1_TagsThenOnePolicyRow ==
    (LoopEnded /\ ClassifiedPII) =>
        /\ TagRowsComplete
        /\ has_pii
        /\ Len(PolicyRows) <= 1
        /\ pc = "DONE" =>
            /\ Len(RunRows) = Len(columns) + 1
            /\ IsPolicyRow(RunRows[Len(columns) + 1])
        /\ pc = "FAILED" => Len(PolicyRows) = 0 /\ HasRaised("LOG_SKIP")

\* Columns classified PUBLIC, PII, INTERNAL: three tag rows, then a policy row.
C1_Witness ==
    /\ pc = "DONE"
    /\ Len(columns) = 3
    /\ Len(issued) >= 9
    /\ issued[3].val = PUBLIC
    /\ issued[6].val = PII
    /\ issued[9].val = INTERNAL
    /\ Len(PolicyRows) = 1

\* C2: while no column of the run is classified PII, the attach statement is
\* not issued, the policy branch is not entered, and the run has no
\* POLICY_ATTACHED or POLICY_SKIPPED row.
C2_NoPiiNoPolicy ==
    ~ClassifiedPII =>
        /\ ~WasIssued("ATTACH")
        /\ ~WasIssued("LOG_ATTACHED")
        /\ ~WasIssued("LOG_SKIP")
        /\ pc \notin {"ATTACH", "LOG_ATTACHED", "LOG_SKIP"}
        /\ Len(PolicyRows) = 0
        /\ ~has_pii

\* A completed run over two or more columns, one of them CONFIDENTIAL, none PII.
C2_Witness ==
    /\ pc = "DONE"
    /\ Len(columns) >= 2
    /\ ~ClassifiedPII
    /\ \E k \in 1..Len(issued) : issued[k].val = CONFIDENTIAL
    /\ Len(TagRows) = Len(columns)

SkippedRows == SelectSeq(PolicyRows, LAMBDA r : r.action = "POLICY_SKIPPED")
AttachedRows == SelectSeq(PolicyRows, LAMBDA r : r.action = "POLICY_ATTACHED")

\* C3 as stated: once the attach statement raised, the run ends in DONE with
\* exactly one POLICY_SKIPPED row and no POLICY_ATTACHED row.
C3_Original ==
    (Terminated /\ HasRaised("ATTACH")) =>
        /\ pc = "DONE"
        /\ Len(SkippedRows) = 1
        /\ Len(AttachedRows) = 0

\* C3 (amended): once the attach statement raised, the POLICY_ATTACHED insert
\* is never issued and no POLICY_ATTACHED row is written; the POLICY_SKIPPED
\* insert is issued next, and the run ends in DONE with exactly one
\* POLICY_SKIPPED row unless that insert itself raises, in which case the run
\* ends without reaching DONE and without a policy row.
C3_AttachErrorSkips ==
    HasRaised("ATTACH") =>
        /\ pc \in {"LOG_SKIP", "DONE", "FAILED"}
        /\ ~WasIssued("LOG_ATTACHED")
        /\ Len(AttachedRows) = 0
        /\ Terminated =>
            /\ WasIssued("LOG_SKIP")
            /\ IF HasRaised("LOG_SKIP")
               THEN pc = "FAILED" /\ Len(PolicyRows) = 0
               ELSE pc = "DONE" /\ Len(SkippedRows) = 1 /\ Len(PolicyRows) = 1

\* The attach statement raised on a table without a policy, and the run
\* completed with a POLICY_SKIPPED row.
C3_Witness ==
    /\ pc = "DONE"
    /\ HasRaised("ATTACH")
    /\ ~row_policy
    /\ Len(SkippedRows) = 1

\* C6: the policy row matches the outcome of the attach statement: a
\* POLICY_SKIPPED insert is issued only after the attach statement raised, and
\* a run that ends after the attach statement succeeded has a POLICY_ATTACHED
\* row and no POLICY_SKIPPED row.
C6_PolicyRowMatchesAttach ==
    /\ WasIssued("LOG_SKIP") => HasRaised("ATTACH")
    /\ Len(SkippedRows) > 0 => HasRaised("ATTACH")
    /\ (pc = "DONE" /\ WasIssued("ATTACH") /\ ~HasRaised("ATTACH")) =>
            Len(AttachedRows) = 1

\* C7: once the sample, a classification or a tag statement raised, that
\* statement is the last one the run issued: the run is over without
\* completing, the failing column and the columns after it are neither
\* tagged nor logged, the policy is not attached and no policy row is written.
C7_EarlyErrorIsFatal ==
    \A k \in 1..Len(issued) :
        (issued[k].stmt \in {"SAMPLE", "CLASSIFY", "TAG"} /\ ~issued[k].ok) =>
            /\ k = Len(issued)
            /\ pc = "FAILED"
            /\ run \notin completed
            /\ ~WasIssued("ATTACH")
            /\ Len(PolicyRows) = 0
            /\ \A c \in 1..Len(columns) :
                c >= issued[k].col =>
                    /\ tags[c] = NoTag
                    /\ \A j \in 1..Len(RunRows) : RunRows[j].column_name # c

\* The tag statement of the second column raised after the first column was
\* classified PII, tagged and logged.
C7_Witness ==
    /\ pc = "FAILED"
    /\ has_pii
    /\ Len(issued) = 7
    /\ issued[3].val = PII
    /\ LastIssued.stmt = "TAG"
    /\ LastIssued.col = 2
    /\ Len(TagRows) = 1

\* C8 as stated: a run that reached the policy step always ends in DONE.
C8_Original ==
    (Terminated /\ WasIssued("ATTACH")) => pc = "DONE"

\* C8 (amended): a run that reached the policy step ends in DONE whenever the
\* attach statement or the POLICY_ATTACHED insert raises (the except block
\* takes over and issues the POLICY_SKIPPED insert); it fails to reach DONE
\* exactly when the POLICY_SKIPPED insert raises, whose error propagates.
C8_PolicyBranchAbsorbs ==
    WasIssued("ATTACH") =>
        /\ (HasRaised("ATTACH") \/ HasRaised("LOG_ATTACHED")) =>
                (WasIssued("LOG_SKIP") \/ pc = "LOG_SKIP")
        /\ Terminated => (pc = "FAILED" <=> HasRaised("LOG_SKIP"))
        /\ pc = "FAILED" => LastIssued.stmt = "LOG_SKIP"

\* The POLICY_ATTACHED insert raised and the run still completed.
C8_Witness ==
    /\ pc = "DONE"
    /\ HasRaised("LOG_ATTACHED")
    /\ ~HasRaised("ATTACH")

\* C9 as stated: the create statement of the log table is the first remote
\* step, issued before the sample is acquired.
C9_Original ==
    issued # <<>> => issued[1].stmt = "CREATE_LOG"

\* C9 (amended): the create statement of the log table is the second remote
\* step: it is issued right after the sample was acquired and before any
\* classification, tag or log insert; when it raises, the run ends with the
\* target table read and nothing classified, tagged or logged.
C9_CreateAfterSample ==
    /\ \A k \in 1..Len(issued) :
        IF k = 1 THEN issued[k].stmt = "SAMPLE"
        ELSE IF k = 2 THEN issued[k].stmt = "CREATE_LOG" /\ issued[1].ok
        ELSE /\ issued[k].stmt \notin {"SAMPLE", "CREATE_LOG"}
             /\ issued[2].ok
    /\ HasRaised("CREATE_LOG") =>
        /\ pc = "FAILED"
        /\ Len(issued) = 2
        /\ Len(RunRows) = 0
        /\ \A c \in 1..Len(columns) : tags[c] = NoTag

\* The create statement raised after the sample was taken.
C9_Witness ==
    /\ pc = "FAILED"
    /\ Len(issued) = 2
    /\ issued[1].stmt = "SAMPLE"
    /\ issued[1].ok
    /\ issued[2].stmt = "CREATE_LOG"
    /\ ~issued[2].ok

\* The tags the current run applied, in order.
AppliedTags == SelectSeq(issued, LAMBDA e : e.stmt = "TAG" /\ e.ok)

\* C10: the TAG_APPLIED rows of the run are, row by row, the tags the run
\* applied (same column, same label, one of the four, and the label the
\* column carries), at most one tag is without its row, and a tag is without
\* its row only before the insert of that column or when that insert raised
\* and ended the run.
C10_TagRowsTrailTags ==
    /\ Len(TagRows) <= Len(AppliedTags)
    /\ Len(AppliedTags) <= Len(TagRows) + 1
    /\ \A k \in 1..Len(AppliedTags) :
        /\ AppliedTags[k].val \in allowed
        /\ tags[AppliedTags[k].col] = AppliedTags[k].val
    /\ \A k \in 1..Len(TagRows) :
        TagRows[k] = TagRecord(run, AppliedTags[k].col, AppliedTags[k].val)
    /\ Len(AppliedTags) = Len(TagRows) + 1 =>
        \/ pc = "LOG_TAG"
        \/ /\ pc = "FAILED"
           /\ LastIssued.stmt = "LOG_TAG"
           /\ ~LastIssued.ok
           /\ LastIssued.col = AppliedTags[Len(AppliedTags)].col
    /\ pc = "DONE" => Len(AppliedTags) = Len(TagRows)

\* The insert of the second column raised: two tags applied, one row written.
C10_Witness ==
    /\ pc = "FAILED"
    /\ Len(AppliedTags) = 2
    /\ Len(TagRows) = 1
    /\ tags[2] \in allowed

\* The TAG_APPLIED rows invocation r appended.
TagRowsOf(r) == SelectSeq(log, LAMBDA x : x.run = r /\ x.action = "TAG_APPLIED")

\* Nothing of the log is updated or deleted by a step, and the create
\* statement on an existing log table changes nothing.
C5_Step ==
    /\ Len(log') >= Len(log)
    /\ SubSeq(log', 1, Len(log)) = log
    /\ log_exists => log_exists'
    /\ pc = "CREATE_LOG" => log' = log

C5_State ==
    /\ \A k \in 1..Len(issued) :
        (issued[k].stmt = "CREATE_LOG" /\ ~issued[k].ok) => issued[k].fault
    /\ \A r \in completed :
        /\ Len(TagRowsOf(r)) = Len(columns)
        /\ \A k \in 1..Len(columns) : TagRowsOf(r)[k].column_name = columns[k]
    /\ \A k \in 1..Len(log) : \A j \in 1..k : log[j].run <= log[k].run

\* C5: over repeated runs on one table the create statement of the log table
\* raises only on an environment fault (never because the table exists) and
\* leaves the rows as they are; no step updates or deletes a row; every
\* completed run has its own TAG_APPLIED rows, one per column, after the rows
\* of the runs before it, so the rows of all completed runs accumulate.
C5_RerunAppends == []C5_State /\ [][C5_Step]_vars

\* Two completed runs over a table with columns, on a log that held a row
\* before: the old row and the rows of both runs are there.
C5_Witness ==
    /\ completed = {1, 2}
    /\ Len(columns) >= 1
    /\ log[1] = OldRecord
    /\ Len(TagRowsOf(1)) = Len(columns)
    /\ Len(TagRowsOf(2)) = Len(columns)
    /\ Len(log) >= 1 + 2 * Len(columns)

====
